---------------------------- MODULE Spec2Model ----------------------------
(***************************************************************************)
(* Control plane of the LangGraph agent (src/src/agent/lg_nodes.py,        *)
(* lg_graph.py, tool_registry.py, tools.py, retrieve.py, main.py).         *)
(*                                                                         *)
(* `state` is the LGState dictionary threaded through the graph, `pc` the  *)
(* node the graph runs next.  Every node is an operator from the state     *)
(* (and the replies of its external collaborators) to the dictionary of    *)
(* updates it returns; the graph merges that dictionary into the state     *)
(* (update @@ state) and follows its edges.                                *)
(*                                                                         *)
(* Text is modelled as follows.  The question is a sequence of one-letter  *)
(* strings, because reason_node inspects its characters.  Every other text *)
(* (log lines, error messages, document texts) is an atom.  A reply of the *)
(* language model is the JSON value the node parses it into, or the fact   *)
(* that it does not parse.  Optional values are sequences of length 0      *)
(* (None) or 1.  The fields events, run_id and started_at of LGState are   *)
(* trace metadata that no node reads or writes and are left out.           *)
(***************************************************************************)
EXTENDS Integers, Sequences, FiniteSets, TLC

VARIABLES state, pc, llm_calls, updated, prev

vars == <<state, pc, llm_calls, updated, prev>>

\* ------------------------------------------------------------------ bounds

\* REASON is not run once step_count has reached this (the code has no such
\* limit on the plan and recovery paths; the model needs one to be finite).
MaxStepCount == 5

\* Longest "plan" array a planning reply carries.
MaxPlanReplyLen == 4

\* Caps of the run (main.py sets them per run; small values here).
max_steps == 3
retrieve_cap == 1
tool_fail_cap == 2
tool_call_cap == 2
tool_latency_cap_ms == 10
memory_every == 2

\* The states the Memory Compactor is applied to on its own (SpecMemory):
\* logs of up to MaxLogLen entries, watermarks up to MaxWatermark, and
\* memory_every from 1 to MaxMemoryEvery.
MaxLogLen == 6
MaxWatermark == 7
MaxMemoryEvery == 3

\* ------------------------------------------------------------ text helpers

None == <<>>
Some(x) == <<x>>

Digits == {"0", "1", "2", "3", "4", "5", "6", "7", "8", "9"}
MathChars == {" ", "+", "-", "*", "/", "(", ")", "."}
Whitespace == {" "}

RECURSIVE lstrip(_)
lstrip(q) == IF q # <<>> /\ Head(q) \in Whitespace THEN lstrip(Tail(q)) ELSE q

RECURSIVE rstrip(_)
rstrip(q) ==
  IF q # <<>> /\ q[Len(q)] \in Whitespace THEN rstrip(SubSeq(q, 1, Len(q) - 1)) ELSE q

\* str.strip()
strip(q) == rstrip(lstrip(q))

\* str.split(): the maximal runs of non-whitespace characters, in order.
RECURSIVE split(_)
split(q) ==
  LET s == lstrip(q)
      n == IF \E i \in 1..Len(s) : s[i] \in Whitespace
           THEN (CHOOSE i \in 1..Len(s) :
                   s[i] \in Whitespace /\ \A j \in 1..(i - 1) : s[j] \notin Whitespace) - 1
           ELSE Len(s)
  IN IF s = <<>> THEN <<>>
     ELSE <<SubSeq(s, 1, n)>> \o split(SubSeq(s, n + 1, Len(s)))

\* The test of lg_nodes.py:476 (and 671, 809) on the stripped question.
is_math_expr(q) ==
  /\ q # <<>>
  /\ \A i \in 1..Len(q) : q[i] \in Digits \cup MathChars
  /\ \E i \in 1..Len(q) : q[i] \in Digits

\* list[:n]
Take(s, n) == SubSeq(s, 1, IF Len(s) < n THEN Len(s) ELSE n)

\* [x for x in s if x in keep]
RECURSIVE Filter(_, _)
Filter(s, keep) ==
  IF s = <<>> THEN <<>>
  ELSE (IF Head(s) \in keep THEN <<Head(s)>> ELSE <<>>) \o Filter(Tail(s), keep)

\* All sequences over S of length at most n.
SeqsUpTo(S, n) == UNION {[1..k -> S] : k \in 0..n}

\* ------------------------------------------------------------ tool registry

\* TOOL_REGISTRY after tools.py has been imported (handlers are the operators
\* calculator and web_lookup_stub below).
TOOL_REGISTRY ==
  [name \in {"calculator", "web_lookup_stub"} |->
     IF name = "calculator"
     THEN [name |-> "calculator", cost |-> "low", risk |-> "low", latency_ms |-> 5]
     ELSE [name |-> "web_lookup_stub", cost |-> "high", risk |-> "high", latency_ms |-> 2000]]

\* Python's order on the registered names ("calculator" < "web_lookup_stub").
NameRank == [name \in DOMAIN TOOL_REGISTRY |-> IF name = "calculator" THEN 1 ELSE 2]

\* sorted(): the elements of S in increasing order of Less (a strict total order).
SortSet(S, Less(_, _)) ==
  CHOOSE s \in [1..Cardinality(S) -> S] :
    \A i, j \in 1..Cardinality(S) : i < j => Less(s[i], s[j])

\* get_tool: <<spec>>, or <<>> where the code raises KeyError.
get_tool(name) == IF name \in DOMAIN TOOL_REGISTRY THEN Some(TOOL_REGISTRY[name]) ELSE None

ByName(a, b) == NameRank[a.name] < NameRank[b.name]

list_tools == SortSet({TOOL_REGISTRY[n] : n \in DOMAIN TOOL_REGISTRY}, ByName)

risk_rank == [r \in {"low", "medium", "high"} |-> CASE r = "low" -> 0 [] r = "medium" -> 1 [] OTHER -> 2]
cost_rank == risk_rank

\* The sort key of lg_nodes.py:699-705, compared as Python compares tuples.
ByCostLatencyName(a, b) ==
  \/ cost_rank[a.cost] < cost_rank[b.cost]
  \/ cost_rank[a.cost] = cost_rank[b.cost] /\ a.latency_ms < b.latency_ms
  \/ cost_rank[a.cost] = cost_rank[b.cost] /\ a.latency_ms = b.latency_ms
     /\ NameRank[a.name] < NameRank[b.name]

\* The policy-filtered, sorted catalog shown to the language model.
tools_catalog(max_allowed_risk) ==
  SortSet({t \in {list_tools[i] : i \in 1..Len(list_tools)} :
             risk_rank[t.risk] <= risk_rank[max_allowed_risk]},
          ByCostLatencyName)

\* -------------------------------------------------------------- tool handlers

\* Keyword arguments of a tool call: the keyword and its value.  NoArgs is {}.
Args(kw, val) == [kw |-> kw, val |-> val]
NoArgs == Args("", <<>>)

Result(tool, input, kind, value, ok) ==
  [tool |-> tool, input |-> input, output |-> [kind |-> kind, value |-> value], ok |-> ok]

\* What calling a handler with **args can do: the result dictionaries it can
\* return, and "raise" where the call raises (a keyword the handler does not
\* take).  The calculator evaluates the expression; the value is abstracted to
\* its class: a finite number, NaN or an infinity (a literal such as 1e999),
\* or the error of a failed evaluation (division by zero, syntax error).
calculator(args) ==
  IF args.kw # "expression" THEN {[raise |-> TRUE, msg |-> "TypeError"]}
  ELSE {[raise |-> FALSE, result |-> Result("calculator", args, "result", "number", TRUE)],
        [raise |-> FALSE, result |-> Result("calculator", args, "result", "inf", TRUE)],
        [raise |-> FALSE, result |-> Result("calculator", args, "error", "calculator error", FALSE)]}

web_lookup_stub(args) ==
  IF args.kw # "query" THEN {[raise |-> TRUE, msg |-> "TypeError"]}
  ELSE {[raise |-> FALSE,
         result |-> Result("web_lookup_stub", args, "result", "Stubbed web lookup", TRUE)]}

\* spec = get_tool(tool_name); spec["handler"](**args)
call_handler(tool_name, args) ==
  IF get_tool(tool_name) = None THEN {[raise |-> TRUE, msg |-> "Tool not found"]}
  ELSE IF tool_name = "calculator" THEN calculator(args)
  ELSE web_lookup_stub(args)

\* --------------------------------------------------------------- retrieval

\* The corpus, in order.  `words` are the tokens of the model's questions
\* (Questions below) that occur in the lowercased title and text of the
\* document, which is what `tok in text` tests.
_CORPUS ==
  <<[title |-> "LangGraph", text |-> "LangGraph helps build ...", words |-> {}],
    [title |-> "LangChain", text |-> "LangChain provides ...", words |-> {}],
    [title |-> "Agent pattern", text |-> "A practical agent is ...",
     words |-> {<<"a", "g", "e", "n", "t">>}]>>

Doc(i) == [title |-> _CORPUS[i].title, text |-> _CORPUS[i].text]

\* score = sum(1 for tok in q.split() if tok and tok in text)
score(query, i) ==
  LET toks == split(query)
  IN Cardinality({j \in 1..Len(toks) : toks[j] \in _CORPUS[i].words})

\* scored.sort(key=score, reverse=True) is stable: ties keep the corpus order.
ByScore(query, i, j) ==
  \/ score(query, i) > score(query, j)
  \/ score(query, i) = score(query, j) /\ i < j

retrieve(query, k) ==
  LET Less(i, j) == ByScore(query, i, j)
      order == SortSet({i \in 1..Len(_CORPUS) : score(query, i) > 0}, Less)
  IN Take([n \in 1..Len(order) |-> Doc(order[n])], k)

\* ------------------------------------------------------- language model replies

\* A reply to a prompt that asks for {"tool": ..., "args": ...}: text that is not
\* JSON ("invalid"), JSON that is not an object ("nondict"), or an object, with
\* its tool ("" when missing or empty) and its args (NoArgs when missing).
\* The tool and args are drawn from LLMCalls: each registered tool with the
\* keyword it takes, the calculator with a keyword it does not take, a name
\* that is not registered, and no tool at all.
LLMCalls ==
  {[tool |-> "calculator", args |-> Args("expression", <<"1", "/", "0">>)],
   [tool |-> "calculator", args |-> Args("query", <<"q">>)],
   [tool |-> "web_lookup_stub", args |-> Args("query", <<"q">>)],
   [tool |-> "no_such_tool", args |-> NoArgs],
   [tool |-> "", args |-> NoArgs]}

ToolReply(json, next, tool, args) == [json |-> json, next |-> next, tool |-> tool, args |-> args]

ToolReplies ==
  {ToolReply("invalid", "", "", NoArgs), ToolReply("nondict", "", "", NoArgs)}
  \cup {ToolReply("dict", "", c.tool, c.args) : c \in LLMCalls}

\* A reply to the planning prompt: the "plan" array of the object ("dict"),
\* over the node names and one word that is none.
PlanWords == {"THINK", "RETRIEVE", "TOOL", "ANSWER", "STOP"}

\* "badplan" is an object whose "plan" cannot be filtered: a number (not
\* iterable) or an array holding an array or object (not hashable).
PlanReplies ==
  {[json |-> "invalid", plan |-> <<>>], [json |-> "nondict", plan |-> <<>>],
   [json |-> "badplan", plan |-> <<>>]}
  \cup {[json |-> "dict", plan |-> p] : p \in SeqsUpTo(PlanWords, MaxPlanReplyLen)}

\* A reply to the routing prompt: "next" (STOP when missing) and, used only
\* when next is TOOL, the tool and args.  "LATER" is a word that is no node.
RouteWords == {"THINK", "RETRIEVE", "ANSWER", "STOP", "LATER"}

RouteReplies ==
  {ToolReply("invalid", "", "", NoArgs), ToolReply("nondict", "", "", NoArgs)}
  \cup {ToolReply("dict", w, "", NoArgs) : w \in RouteWords}
  \cup {ToolReply("dict", "TOOL", c.tool, c.args) : c \in LLMCalls}

\* --------------------------------------------------------------- node results

\* What running a node gives: the state with the returned dictionary merged
\* in, the keys of that dictionary, the number of llm.invoke calls made, and
\* whether the node raised instead of returning.
Out(s, update, calls) ==
  [state |-> update @@ s, keys |-> DOMAIN update, calls |-> calls, fault |-> FALSE]

Raised(s, calls) == [state |-> s, keys |-> {}, calls |-> calls, fault |-> TRUE]

\* The empty dictionary {}.
Nothing == [k \in {} |-> 0]

\* A line of reasoning_steps: its leading marker, the step number a
\* "[step n]" line carries (0 otherwise), and the rest of the line.
Entry(tag, n, text) == [tag |-> tag, n |-> n, text |-> text]

\* bool(x) of an optional text.
Truthy(opt) == opt # None /\ opt[1] # ""

\* ---------------------------------------------------------------- MEMORY node

\* Mutant of memory_node: 3 steps are kept, not 4.
memory_node_keeping_three(s) ==
  LET steps == s.reasoning_steps
      old == IF Len(steps) > 4 THEN SubSeq(steps, 1, Len(steps) - 4) ELSE <<>>
  IN IF Len(steps) - s.last_memory_at < s.memory_every
     THEN {Out(s, Nothing, 0)}
     ELSE IF old = <<>>
     THEN {Out(s, [last_memory_at |-> Len(steps)], 0)}
     ELSE {Out(s, [memory_summary |-> "summary",
                   last_memory_at |-> Len(steps),
                   reasoning_steps |-> SubSeq(steps, Len(steps) - 2, Len(steps))], 1)}

\* Mutant of memory_node: the summary replaces the newest steps, the oldest 4 stay.
memory_node_keeping_head(s) ==
  LET steps == s.reasoning_steps
      old == IF Len(steps) > 4 THEN SubSeq(steps, 1, Len(steps) - 4) ELSE <<>>
  IN IF Len(steps) - s.last_memory_at < s.memory_every
     THEN {Out(s, Nothing, 0)}
     ELSE IF old = <<>>
     THEN {Out(s, [last_memory_at |-> Len(steps)], 0)}
     ELSE {Out(s, [memory_summary |-> "summary",
                   last_memory_at |-> Len(steps),
                   reasoning_steps |-> SubSeq(steps, 1, 4)], 1)}

\* Mutant of memory_node: the test on memory_every is left out.
memory_node_without_threshold(s) ==
  LET steps == s.reasoning_steps
      old == IF Len(steps) > 4 THEN SubSeq(steps, 1, Len(steps) - 4) ELSE <<>>
  IN IF old = <<>>
     THEN {Out(s, [last_memory_at |-> Len(steps)], 0)}
     ELSE {Out(s, [memory_summary |-> "summary",
                   last_memory_at |-> Len(steps),
                   reasoning_steps |-> SubSeq(steps, Len(steps) - 3, Len(steps))], 1)}

\* Mutant of memory_node: summarizing does not move last_memory_at.
memory_node_stale_watermark(s) ==
  LET steps == s.reasoning_steps
      old == IF Len(steps) > 4 THEN SubSeq(steps, 1, Len(steps) - 4) ELSE <<>>
  IN IF Len(steps) - s.last_memory_at < s.memory_every
     THEN {Out(s, Nothing, 0)}
     ELSE IF old = <<>>
     THEN {Out(s, [last_memory_at |-> Len(steps)], 0)}
     ELSE {Out(s, [memory_summary |-> "summary",
                   reasoning_steps |-> SubSeq(steps, Len(steps) - 3, Len(steps))], 1)}

memory_node(s) ==
  LET steps == s.reasoning_steps
      old == IF Len(steps) > 4 THEN SubSeq(steps, 1, Len(steps) - 4) ELSE <<>>
  IN IF Len(steps) - s.last_memory_at < s.memory_every
     THEN {Out(s, Nothing, 0)}
     ELSE IF old = <<>>
     THEN {Out(s, [last_memory_at |-> Len(steps)], 0)}
     ELSE {Out(s, [memory_summary |-> "summary",
                   last_memory_at |-> Len(steps),
                   reasoning_steps |-> SubSeq(steps, Len(steps) - 3, Len(steps))], 1)}

\* ----------------------------------------------------------------- THINK node

\* Mutant of think_node: asking for a repair clears last_error.
think_node_clearing_error(s) ==
  IF Truthy(s.last_error)
  THEN {IF r.json = "nondict"
        THEN Raised(s, 1)
        ELSE Out(s, [think_count |-> s.think_count + 1,
                     reasoning_steps |->
                       Append(s.reasoning_steps, Entry("THINK (repair)", 0, s.last_error[1])),
                     last_error |-> None,
                     repaired_tool_request |->
                       IF r.json = "dict" /\ r.tool # ""
                       THEN Some([tool |-> r.tool, args |-> r.args]) ELSE None], 1)
        : r \in ToolReplies}
  ELSE {Out(s, [think_count |-> s.think_count + 1,
                reasoning_steps |-> Append(s.reasoning_steps, Entry("", 0, "notes"))], 1)}

\* Mutant of think_node: a repair is asked for whether or not a tool failed.
think_node_always_repairing(s) ==
  {IF r.json = "nondict"
   THEN Raised(s, 1)
   ELSE Out(s, [think_count |-> s.think_count + 1,
                reasoning_steps |->
                  Append(s.reasoning_steps, Entry("THINK (repair)", 0, "last_error")),
                repaired_tool_request |->
                  IF r.json = "dict" /\ r.tool # ""
                  THEN Some([tool |-> r.tool, args |-> r.args]) ELSE None], 1)
   : r \in ToolReplies}

think_node(s) ==
  IF Truthy(s.last_error)
  THEN {IF r.json = "nondict"
        THEN Raised(s, 1)
        ELSE Out(s, [think_count |-> s.think_count + 1,
                     reasoning_steps |->
                       Append(s.reasoning_steps, Entry("THINK (repair)", 0, s.last_error[1])),
                     repaired_tool_request |->
                       IF r.json = "dict" /\ r.tool # ""
                       THEN Some([tool |-> r.tool, args |-> r.args]) ELSE None], 1)
        : r \in ToolReplies}
  ELSE {Out(s, [think_count |-> s.think_count + 1,
                reasoning_steps |-> Append(s.reasoning_steps, Entry("", 0, "notes"))], 1)}

\* -------------------------------------------------------------- RETRIEVE node

retrieve_node(s) ==
  LET docs == retrieve(s.question, 2)
  IN {Out(s, [retrieve_count |-> s.retrieve_count + 1,
              knowledge |-> s.knowledge \o docs,
              reasoning_steps |->
                Append(s.reasoning_steps, Entry("RETRIEVE", 0, "got docs"))], 0)}

\* ------------------------------------------------------------------ TOOL node

\* The semantic validation of lg_nodes.py:311-329 of a result the handler
\* reported ok: <<>> when it passes, <<message>> when it fails.
semantic_error(tool_name, result) ==
  IF tool_name # "calculator" THEN None
  ELSE IF result.output.kind # "result" \/ result.output.value \notin {"number", "inf"}
  THEN Some("Tool output invalid: expected number")
  ELSE IF result.output.value = "inf" THEN Some("Tool output invalid: NaN/Inf")
  ELSE None

\* Mutant of tool_outcome: a result that fails the semantic validation is
\* recorded as the handler returned it.
tool_outcome_keeping_ok(tool_name, args, h) ==
  IF tool_name = ""
  THEN [result |-> Result("(none)", args, "error", "No tool requested", FALSE),
        last_error |-> Some("No tool requested")]
  ELSE IF h.raise
  THEN [result |-> Result(tool_name, args, "error", h.msg, FALSE), last_error |-> Some(h.msg)]
  ELSE IF ~h.result.ok
  THEN [result |-> h.result, last_error |-> Some(h.result.output.value)]
  ELSE IF semantic_error(tool_name, h.result) # None
  THEN [result |-> h.result, last_error |-> semantic_error(tool_name, h.result)]
  ELSE [result |-> h.result, last_error |-> None]

\* Mutant of tool_outcome: a failure the handler reports sets no last_error.
tool_outcome_silent_failure(tool_name, args, h) ==
  IF tool_name = ""
  THEN [result |-> Result("(none)", args, "error", "No tool requested", FALSE),
        last_error |-> Some("No tool requested")]
  ELSE IF h.raise
  THEN [result |-> Result(tool_name, args, "error", h.msg, FALSE), last_error |-> Some(h.msg)]
  ELSE IF ~h.result.ok
  THEN [result |-> h.result, last_error |-> None]
  ELSE IF semantic_error(tool_name, h.result) # None
  THEN [result |-> Result(h.result.tool, h.result.input, "error",
                          semantic_error(tool_name, h.result)[1], FALSE),
        last_error |-> semantic_error(tool_name, h.result)]
  ELSE [result |-> h.result, last_error |-> None]

\* The result and error of lg_nodes.py:275-335 for one thing the call can do.
tool_outcome(tool_name, args, h) ==
  IF tool_name = ""
  THEN [result |-> Result("(none)", args, "error", "No tool requested", FALSE),
        last_error |-> Some("No tool requested")]
  ELSE IF h.raise
  THEN [result |-> Result(tool_name, args, "error", h.msg, FALSE), last_error |-> Some(h.msg)]
  ELSE IF ~h.result.ok
  THEN [result |-> h.result, last_error |-> Some(h.result.output.value)]
  ELSE IF semantic_error(tool_name, h.result) # None
  THEN [result |-> Result(h.result.tool, h.result.input, "error",
                          semantic_error(tool_name, h.result)[1], FALSE),
        last_error |-> semantic_error(tool_name, h.result)]
  ELSE [result |-> h.result, last_error |-> None]

\* Mutant of tool_budget_update: latency is charged whenever the tool is registered.
tool_budget_update_charging_failures(s, tool_name, failed) ==
  IF tool_name # "" /\ get_tool(tool_name) # None
  THEN [tool_calls |-> s.tool_calls + 1,
        tool_latency_ms |-> s.tool_latency_ms + get_tool(tool_name)[1].latency_ms]
  ELSE [tool_calls |-> s.tool_calls + 1]

\* Mutant of tool_budget_update: only a successful attempt is counted.
tool_budget_update_counting_successes(s, tool_name, failed) ==
  IF tool_name # "" /\ ~failed /\ get_tool(tool_name) # None
  THEN [tool_calls |-> s.tool_calls + 1,
        tool_latency_ms |-> s.tool_latency_ms + get_tool(tool_name)[1].latency_ms]
  ELSE [tool_calls |-> s.tool_calls]

\* Mutant of tool_budget_update: a failed attempt gives back the latency charged so far.
tool_budget_update_refunding(s, tool_name, failed) ==
  IF tool_name # "" /\ ~failed /\ get_tool(tool_name) # None
  THEN [tool_calls |-> s.tool_calls + 1,
        tool_latency_ms |-> s.tool_latency_ms + get_tool(tool_name)[1].latency_ms]
  ELSE [tool_calls |-> s.tool_calls + 1, tool_latency_ms |-> 0]

\* tool_calls and tool_latency_ms after the attempt (lg_nodes.py:350-358).
tool_budget_update(s, tool_name, failed) ==
  IF tool_name # "" /\ ~failed /\ get_tool(tool_name) # None
  THEN [tool_calls |-> s.tool_calls + 1,
        tool_latency_ms |-> s.tool_latency_ms + get_tool(tool_name)[1].latency_ms]
  ELSE [tool_calls |-> s.tool_calls + 1]

\* Mutant of tool_node: the lookup and the handler call are not guarded, so
\* what they raise leaves the node.
tool_node_unguarded(s) ==
  LET req == IF s.tool_request = None THEN [tool |-> "", args |-> NoArgs] ELSE s.tool_request[1]
      tool_name == req.tool
      args == req.args
      calls == IF tool_name = "" THEN {[raise |-> FALSE]} ELSE call_handler(tool_name, args)
  IN {IF tool_name # "" /\ h.raise THEN Raised(s, 0)
      ELSE LET o == tool_outcome(tool_name, args, h)
               failed == o.last_error # None
           IN Out(s, tool_budget_update(s, tool_name, failed)
                     @@ [tool_results |-> Append(s.tool_results, o.result),
                         reasoning_steps |->
                           Append(s.reasoning_steps, Entry("TOOL ran", 0, o.result.tool)),
                         tool_request |-> None,
                         last_error |-> o.last_error,
                         tool_fail_count |-> IF failed THEN s.tool_fail_count + 1 ELSE 0], 0)
      : h \in calls}

\* Mutant of tool_node: the request is left in the state.
tool_node_keeping_request(s) ==
  LET req == IF s.tool_request = None THEN [tool |-> "", args |-> NoArgs] ELSE s.tool_request[1]
      tool_name == req.tool
      args == req.args
      calls == IF tool_name = "" THEN {[raise |-> FALSE]} ELSE call_handler(tool_name, args)
  IN {LET o == tool_outcome(tool_name, args, h)
          failed == o.last_error # None
      IN Out(s, tool_budget_update(s, tool_name, failed)
                @@ [tool_results |-> Append(s.tool_results, o.result),
                    reasoning_steps |->
                      Append(s.reasoning_steps, Entry("TOOL ran", 0, o.result.tool)),
                    last_error |-> o.last_error,
                    tool_fail_count |-> IF failed THEN s.tool_fail_count + 1 ELSE 0], 0)
      : h \in calls}

tool_node(s) ==
  LET req == IF s.tool_request = None THEN [tool |-> "", args |-> NoArgs] ELSE s.tool_request[1]
      tool_name == req.tool
      args == req.args
      calls == IF tool_name = "" THEN {[raise |-> FALSE]} ELSE call_handler(tool_name, args)
  IN {LET o == tool_outcome(tool_name, args, h)
          failed == o.last_error # None
      IN Out(s, tool_budget_update(s, tool_name, failed)
                @@ [tool_results |-> Append(s.tool_results, o.result),
                    reasoning_steps |->
                      Append(s.reasoning_steps, Entry("TOOL ran", 0, o.result.tool)),
                    tool_request |-> None,
                    last_error |-> o.last_error,
                    tool_fail_count |-> IF failed THEN s.tool_fail_count + 1 ELSE 0], 0)
      : h \in calls}

\* ---------------------------------------------------------------- ANSWER node

\* Mutant of answer_node: answering also drops what is left of the plan.
answer_node_clearing_plan(s) ==
  LET last == s.tool_results[Len(s.tool_results)]
  IN IF s.tool_results # <<>> /\ last.tool = "calculator" /\ last.ok
     THEN {Out(s, [reasoning_steps |->
                     Append(s.reasoning_steps, Entry("ANSWER:", 0, last.output.value)),
                   plan |-> <<>>, next |-> "ANSWER"], 0)}
     ELSE IF s.knowledge # <<>>
     THEN {Out(s, [reasoning_steps |->
                     Append(s.reasoning_steps,
                            Entry("ANSWER:", 0, s.knowledge[Len(s.knowledge)].text)),
                   plan |-> <<>>, next |-> "ANSWER"], 0)}
     ELSE {Out(s, [reasoning_steps |->
                     Append(s.reasoning_steps,
                            Entry("ANSWER:", 0, "I don't have enough evidence")),
                   plan |-> <<>>, next |-> "ANSWER"], 0)}

\* Mutant of answer_node: retrieved knowledge is preferred to a calculator result.
answer_node_knowledge_first(s) ==
  LET last == s.tool_results[Len(s.tool_results)]
  IN IF s.knowledge # <<>>
     THEN {Out(s, [reasoning_steps |->
                     Append(s.reasoning_steps,
                            Entry("ANSWER:", 0, s.knowledge[Len(s.knowledge)].text)),
                   next |-> "ANSWER"], 0)}
     ELSE IF s.tool_results # <<>> /\ last.tool = "calculator" /\ last.ok
     THEN {Out(s, [reasoning_steps |->
                     Append(s.reasoning_steps, Entry("ANSWER:", 0, last.output.value)),
                   next |-> "ANSWER"], 0)}
     ELSE {Out(s, [reasoning_steps |->
                     Append(s.reasoning_steps,
                            Entry("ANSWER:", 0, "I don't have enough evidence")),
                   next |-> "ANSWER"], 0)}

answer_node(s) ==
  LET last == s.tool_results[Len(s.tool_results)]
  IN IF s.tool_results # <<>> /\ last.tool = "calculator" /\ last.ok
     THEN {Out(s, [reasoning_steps |->
                     Append(s.reasoning_steps, Entry("ANSWER:", 0, last.output.value)),
                   next |-> "ANSWER"], 0)}
     ELSE IF s.knowledge # <<>>
     THEN {Out(s, [reasoning_steps |->
                     Append(s.reasoning_steps,
                            Entry("ANSWER:", 0, s.knowledge[Len(s.knowledge)].text)),
                   next |-> "ANSWER"], 0)}
     ELSE {Out(s, [reasoning_steps |->
                     Append(s.reasoning_steps,
                            Entry("ANSWER:", 0, "I don't have enough evidence")),
                   next |-> "ANSWER"], 0)}

\* ---------------------------------------------------------------- REASON node

StepEntry(n, text) == Entry("[step]", n, text)

tool_budget_exhausted(s) ==
  s.tool_calls >= s.tool_call_cap \/ s.tool_latency_ms >= s.tool_latency_cap_ms

has_evidence(s) == s.knowledge # <<>> \/ s.tool_results # <<>>

calculator_request(q) == Some([tool |-> "calculator", args |-> Args("expression", q)])

\* Mutant of fast_path: a failed calculator result is answered, not stopped.
fast_path_ignoring_failure(s, step_count, q) ==
  LET last == s.tool_results[Len(s.tool_results)]
  IN IF s.tool_results # <<>> /\ last.tool = "calculator"
     THEN [step_count |-> step_count, next |-> "ANSWER",
           reasoning_steps |-> Append(s.reasoning_steps,
             StepEntry(step_count, "REASON -> ANSWER (calculator done)"))]
     ELSE IF tool_budget_exhausted(s)
     THEN [step_count |-> step_count, next |-> "STOP",
           reasoning_steps |-> s.reasoning_steps \o
             <<StepEntry(step_count, "STOP: tool budget exhausted"),
               Entry("ANSWER:", 0, "tool budget has been exhausted")>>]
     ELSE [step_count |-> step_count, next |-> "TOOL",
           tool_request |-> calculator_request(q),
           reasoning_steps |-> Append(s.reasoning_steps,
             StepEntry(step_count, "REASON -> TOOL (calculator)"))]

\* Mutant of fast_path: a failed calculator result sends the question to the
\* calculator again.
fast_path_retrying(s, step_count, q) ==
  LET last == s.tool_results[Len(s.tool_results)]
  IN IF s.tool_results # <<>> /\ last.tool = "calculator" /\ last.ok
     THEN [step_count |-> step_count, next |-> "ANSWER",
           reasoning_steps |-> Append(s.reasoning_steps,
             StepEntry(step_count, "REASON -> ANSWER (calculator done)"))]
     ELSE IF tool_budget_exhausted(s)
     THEN [step_count |-> step_count, next |-> "STOP",
           reasoning_steps |-> s.reasoning_steps \o
             <<StepEntry(step_count, "STOP: tool budget exhausted"),
               Entry("ANSWER:", 0, "tool budget has been exhausted")>>]
     ELSE [step_count |-> step_count, next |-> "TOOL",
           tool_request |-> calculator_request(q),
           reasoning_steps |-> Append(s.reasoning_steps,
             StepEntry(step_count, "REASON -> TOOL (calculator)"))]

\* Fast path for a pure math expression q (lg_nodes.py:477-517).
fast_path(s, step_count, q) ==
  LET last == s.tool_results[Len(s.tool_results)]
  IN IF s.tool_results # <<>> /\ last.tool = "calculator"
     THEN IF last.ok
          THEN [step_count |-> step_count, next |-> "ANSWER",
                reasoning_steps |-> Append(s.reasoning_steps,
                  StepEntry(step_count, "REASON -> ANSWER (calculator done)"))]
          ELSE [step_count |-> step_count, next |-> "STOP",
                reasoning_steps |-> Append(s.reasoning_steps,
                  StepEntry(step_count, "STOP: calculator error"))]
     ELSE IF tool_budget_exhausted(s)
     THEN [step_count |-> step_count, next |-> "STOP",
           reasoning_steps |-> s.reasoning_steps \o
             <<StepEntry(step_count, "STOP: tool budget exhausted"),
               Entry("ANSWER:", 0, "tool budget has been exhausted")>>]
     ELSE [step_count |-> step_count, next |-> "TOOL",
           tool_request |-> calculator_request(q),
           reasoning_steps |-> Append(s.reasoning_steps,
             StepEntry(step_count, "REASON -> TOOL (calculator)"))]

\* Mutant of fail_cap_guardrail: with evidence at hand the tool is tried once more.
fail_cap_guardrail_retrying(s, step_count) ==
  IF has_evidence(s)
  THEN [step_count |-> step_count, next |-> "TOOL",
        reasoning_steps |-> Append(s.reasoning_steps,
          StepEntry(step_count, "REASON -> ANSWER (best-effort after tool failures)"))]
  ELSE [step_count |-> step_count, next |-> "STOP",
        reasoning_steps |-> Append(s.reasoning_steps,
          StepEntry(step_count, "STOP: tool_fail_cap reached"))]

\* Mutant of fail_cap_guardrail: only retrieved knowledge counts as evidence.
fail_cap_guardrail_knowledge_only(s, step_count) ==
  IF s.knowledge # <<>>
  THEN [step_count |-> step_count, next |-> "ANSWER",
        reasoning_steps |-> Append(s.reasoning_steps,
          StepEntry(step_count, "REASON -> ANSWER (best-effort after tool failures)"))]
  ELSE [step_count |-> step_count, next |-> "STOP",
        reasoning_steps |-> Append(s.reasoning_steps,
          StepEntry(step_count, "STOP: tool_fail_cap reached"))]

\* Too many consecutive tool failures (lg_nodes.py:526-538).
fail_cap_guardrail(s, step_count) ==
  IF has_evidence(s)
  THEN [step_count |-> step_count, next |-> "ANSWER",
        reasoning_steps |-> Append(s.reasoning_steps,
          StepEntry(step_count, "REASON -> ANSWER (best-effort after tool failures)"))]
  ELSE [step_count |-> step_count, next |-> "STOP",
        reasoning_steps |-> Append(s.reasoning_steps,
          StepEntry(step_count, "STOP: tool_fail_cap reached"))]

\* Mutant of failure_recovery: the repaired request is used but not cleared.
failure_recovery_keeping_repair(s, step_count) ==
  IF s.repaired_tool_request # None
  THEN [step_count |-> step_count, next |-> "TOOL",
        tool_request |-> s.repaired_tool_request,
        reasoning_steps |-> Append(s.reasoning_steps,
          StepEntry(step_count, "REASON -> TOOL (repaired)"))]
  ELSE [step_count |-> step_count, next |-> "THINK",
        reasoning_steps |-> Append(s.reasoning_steps,
          StepEntry(step_count, "REASON -> THINK (tool failed, attempting repair)"))]

\* A tool failed: run the repaired request, or go and get one (lg_nodes.py:541-557).
failure_recovery(s, step_count) ==
  IF s.repaired_tool_request # None
  THEN [step_count |-> step_count, next |-> "TOOL",
        tool_request |-> s.repaired_tool_request,
        repaired_tool_request |-> None,
        reasoning_steps |-> Append(s.reasoning_steps,
          StepEntry(step_count, "REASON -> TOOL (repaired)"))]
  ELSE [step_count |-> step_count, next |-> "THINK",
        reasoning_steps |-> Append(s.reasoning_steps,
          StepEntry(step_count, "REASON -> THINK (tool failed, attempting repair)"))]

valid == {"THINK", "RETRIEVE", "TOOL", "ANSWER"}

\* Mutant of parse_plan: the steps of the reply are taken as they are.
parse_plan_unchecked(r) == IF r.json = "dict" THEN r.plan ELSE <<>>

\* The plan read from a planning reply (lg_nodes.py:591-600).
parse_plan(r) == IF r.json = "dict" THEN Take(Filter(r.plan, valid), 3) ELSE <<>>

\* Mutant of plan_created: the update also leaves out step_count.
plan_created_without_step(s, step_count, plan) ==
  [plan |-> plan,
   reasoning_steps |-> Append(s.reasoning_steps, StepEntry(step_count, "PLAN created"))]

\* lg_nodes.py:602-608: the plan is stored; the update carries no "next".
plan_created(s, step_count, plan) ==
  [step_count |-> step_count, plan |-> plan,
   reasoning_steps |-> Append(s.reasoning_steps, StepEntry(step_count, "PLAN created"))]

\* Mutant of plan_invalidation: at the retrieval cap only the last step of
\* the plan is dropped.
plan_invalidation_dropping_last(s, step_count) ==
  IF s.plan[1] = "RETRIEVE" /\ s.retrieve_count >= s.retrieve_cap
  THEN Some([step_count |-> step_count, plan |-> SubSeq(s.plan, 1, Len(s.plan) - 1),
             reasoning_steps |-> Append(s.reasoning_steps,
               StepEntry(step_count, "PLAN invalidated: retrieve_cap reached"))])
  ELSE IF s.plan[1] = "TOOL" /\ s.tool_fail_count > 0
  THEN Some([step_count |-> step_count, plan |-> <<>>,
             reasoning_steps |-> Append(s.reasoning_steps,
               StepEntry(step_count, "PLAN invalidated: tool failure recovery active"))])
  ELSE IF s.plan[1] = "TOOL" /\ tool_budget_exhausted(s)
  THEN Some([step_count |-> step_count,
             next |-> IF has_evidence(s) THEN "ANSWER" ELSE "STOP",
             plan |-> <<>>,
             reasoning_steps |->
               Append(s.reasoning_steps, StepEntry(step_count, "tool budget exhausted"))
               \o (IF has_evidence(s) THEN <<>>
                   ELSE <<Entry("ANSWER:", 0, "tool budget has been exhausted")>>)])
  ELSE None

\* Mutant of plan_invalidation: an exhausted tool budget always stops the run.
plan_invalidation_always_stopping(s, step_count) ==
  IF s.plan[1] = "RETRIEVE" /\ s.retrieve_count >= s.retrieve_cap
  THEN Some([step_count |-> step_count, plan |-> <<>>,
             reasoning_steps |-> Append(s.reasoning_steps,
               StepEntry(step_count, "PLAN invalidated: retrieve_cap reached"))])
  ELSE IF s.plan[1] = "TOOL" /\ s.tool_fail_count > 0
  THEN Some([step_count |-> step_count, plan |-> <<>>,
             reasoning_steps |-> Append(s.reasoning_steps,
               StepEntry(step_count, "PLAN invalidated: tool failure recovery active"))])
  ELSE IF s.plan[1] = "TOOL" /\ tool_budget_exhausted(s)
  THEN Some([step_count |-> step_count,
             next |-> "STOP",
             plan |-> <<>>,
             reasoning_steps |->
               Append(s.reasoning_steps, StepEntry(step_count, "tool budget exhausted"))
               \o <<Entry("ANSWER:", 0, "tool budget has been exhausted")>>])
  ELSE None

\* Plan invalidation (lg_nodes.py:615-656): <<update>>, or <<>> when the plan stands.
plan_invalidation(s, step_count) ==
  IF s.plan[1] = "RETRIEVE" /\ s.retrieve_count >= s.retrieve_cap
  THEN Some([step_count |-> step_count, plan |-> <<>>,
             reasoning_steps |-> Append(s.reasoning_steps,
               StepEntry(step_count, "PLAN invalidated: retrieve_cap reached"))])
  ELSE IF s.plan[1] = "TOOL" /\ s.tool_fail_count > 0
  THEN Some([step_count |-> step_count, plan |-> <<>>,
             reasoning_steps |-> Append(s.reasoning_steps,
               StepEntry(step_count, "PLAN invalidated: tool failure recovery active"))])
  ELSE IF s.plan[1] = "TOOL" /\ tool_budget_exhausted(s)
  THEN Some([step_count |-> step_count,
             next |-> IF has_evidence(s) THEN "ANSWER" ELSE "STOP",
             plan |-> <<>>,
             reasoning_steps |->
               Append(s.reasoning_steps, StepEntry(step_count, "tool budget exhausted"))
               \o (IF has_evidence(s) THEN <<>>
                   ELSE <<Entry("ANSWER:", 0, "tool budget has been exhausted")>>)])
  ELSE None

\* Mutant of plan_execution: the fallback to THINK leaves the TOOL step in the plan.
plan_execution_keeping_head(s, step_count, q, calls) ==
  LET next_step == s.plan[1]
      remaining == Tail(s.plan)
  IN IF next_step = "TOOL"
     THEN IF is_math_expr(q)
          THEN {Out(s, [step_count |-> step_count, next |-> "TOOL", plan |-> remaining,
                        tool_request |-> calculator_request(q),
                        reasoning_steps |-> Append(s.reasoning_steps,
                          StepEntry(step_count, "PLAN step -> TOOL (calculator)"))], calls)}
          ELSE {IF r.json # "dict" \/ r.tool = ""
                THEN Out(s, [step_count |-> step_count, next |-> "THINK", plan |-> s.plan,
                             reasoning_steps |-> Append(s.reasoning_steps,
                               StepEntry(step_count, "PLAN step TOOL failed -> THINK"))],
                         calls + 1)
                ELSE Out(s, [step_count |-> step_count, next |-> "TOOL", plan |-> remaining,
                             tool_request |-> Some([tool |-> r.tool, args |-> r.args]),
                             reasoning_steps |-> Append(s.reasoning_steps,
                               StepEntry(step_count, "PLAN step -> TOOL"))], calls + 1)
                : r \in ToolReplies}
     ELSE {Out(s, [step_count |-> step_count, next |-> next_step, plan |-> remaining,
                   reasoning_steps |-> Append(s.reasoning_steps,
                     StepEntry(step_count, "PLAN step"))], calls)}

\* Plan execution (lg_nodes.py:661-767) of a nonempty plan, after `calls`
\* calls of the language model in this invocation.
plan_execution(s, step_count, q, calls) ==
  LET next_step == s.plan[1]
      remaining == Tail(s.plan)
  IN IF next_step = "TOOL"
     THEN IF is_math_expr(q)
          THEN {Out(s, [step_count |-> step_count, next |-> "TOOL", plan |-> remaining,
                        tool_request |-> calculator_request(q),
                        reasoning_steps |-> Append(s.reasoning_steps,
                          StepEntry(step_count, "PLAN step -> TOOL (calculator)"))], calls)}
          ELSE {IF r.json # "dict" \/ r.tool = ""
                THEN Out(s, [step_count |-> step_count, next |-> "THINK", plan |-> remaining,
                             reasoning_steps |-> Append(s.reasoning_steps,
                               StepEntry(step_count, "PLAN step TOOL failed -> THINK"))],
                         calls + 1)
                ELSE Out(s, [step_count |-> step_count, next |-> "TOOL", plan |-> remaining,
                             tool_request |-> Some([tool |-> r.tool, args |-> r.args]),
                             reasoning_steps |-> Append(s.reasoning_steps,
                               StepEntry(step_count, "PLAN step -> TOOL"))], calls + 1)
                : r \in ToolReplies}
     ELSE {Out(s, [step_count |-> step_count, next |-> next_step, plan |-> remaining,
                   reasoning_steps |-> Append(s.reasoning_steps,
                     StepEntry(step_count, "PLAN step"))], calls)}

\* Mutant of llm_decision: the fallback for a reply that does not parse is
\* always RETRIEVE.
llm_decision_retrieving_fallback(s, step_count, r, calls) ==
  IF r.json = "invalid"
  THEN Out(s, [step_count |-> step_count,
               next |-> "RETRIEVE",
               reasoning_steps |-> Append(s.reasoning_steps,
                 StepEntry(step_count, "REASON fallback"))], calls)
  ELSE IF r.json = "nondict"
  THEN Raised(s, calls)
  ELSE IF r.next = "TOOL"
  THEN Out(s, [step_count |-> step_count, next |-> r.next,
               reasoning_steps |-> Append(s.reasoning_steps,
                 StepEntry(step_count, "REASON ->")),
               tool_request |-> Some([tool |-> r.tool, args |-> r.args])], calls)
  ELSE Out(s, [step_count |-> step_count, next |-> r.next,
               reasoning_steps |-> Append(s.reasoning_steps,
                 StepEntry(step_count, "REASON ->"))], calls)

\* The routing decision asked of the language model (lg_nodes.py:846-871).
llm_decision(s, step_count, r, calls) ==
  IF r.json = "invalid"
  THEN Out(s, [step_count |-> step_count,
               next |-> IF s.knowledge = <<>> /\ s.retrieve_count < s.retrieve_cap
                        THEN "RETRIEVE" ELSE "STOP",
               reasoning_steps |-> Append(s.reasoning_steps,
                 StepEntry(step_count, "REASON fallback"))], calls)
  ELSE IF r.json = "nondict"
  THEN Raised(s, calls)
  ELSE IF r.next = "TOOL"
  THEN Out(s, [step_count |-> step_count, next |-> r.next,
               reasoning_steps |-> Append(s.reasoning_steps,
                 StepEntry(step_count, "REASON ->")),
               tool_request |-> Some([tool |-> r.tool, args |-> r.args])], calls)
  ELSE Out(s, [step_count |-> step_count, next |-> r.next,
               reasoning_steps |-> Append(s.reasoning_steps,
                 StepEntry(step_count, "REASON ->"))], calls)

\* The rules reached with no plan in force (lg_nodes.py:773-871).
guardrails(s, step_count, q, calls) ==
  LET last_result == s.tool_results[Len(s.tool_results)]
  IN IF step_count >= s.max_steps
     THEN {Out(s, [step_count |-> step_count, next |-> "STOP",
                   reasoning_steps |-> Append(s.reasoning_steps,
                     StepEntry(step_count, "STOP: max_steps reached"))], calls)}
     ELSE IF s.retrieve_count >= s.retrieve_cap /\ s.knowledge = <<>>
     THEN {Out(s, [step_count |-> step_count, next |-> "STOP",
                   reasoning_steps |-> Append(s.reasoning_steps,
                     StepEntry(step_count, "STOP: retrieve_cap reached without evidence"))],
               calls)}
     ELSE IF ~Truthy(s.last_error) /\ s.repaired_tool_request # None
     THEN {Out(s, [repaired_tool_request |-> None], calls)}
     ELSE IF s.tool_results # <<>> /\ last_result.ok
     THEN {Out(s, [step_count |-> step_count, next |-> "ANSWER",
                   reasoning_steps |-> Append(s.reasoning_steps,
                     StepEntry(step_count, "REASON -> ANSWER (tool succeeded)"))], calls)}
     ELSE IF is_math_expr(q)
     THEN {Out(s, [step_count |-> step_count, next |-> "TOOL",
                   tool_request |-> calculator_request(q),
                   reasoning_steps |-> Append(s.reasoning_steps,
                     StepEntry(step_count, "REASON -> TOOL (calculator)"))], calls)}
     ELSE {llm_decision(s, step_count, r, calls + 1) : r \in RouteReplies}

\* lg_nodes.py:615-871: what follows planning, after `calls` calls of the
\* language model; reads the plan of the incoming state.
after_planning(s, step_count, q, calls) ==
  IF s.plan # <<>> /\ plan_invalidation(s, step_count) # None
  THEN {Out(s, plan_invalidation(s, step_count)[1], calls)}
  ELSE IF s.plan # <<>>
  THEN plan_execution(s, step_count, q, calls)
  ELSE guardrails(s, step_count, q, calls)

\* Planning with an empty plan (lg_nodes.py:565-608), for one reply.
planning(s, step_count, q, r) ==
  IF r.json = "badplan" THEN {Raised(s, 1)}
  ELSE IF parse_plan(r) # <<>>
  THEN {Out(s, plan_created(s, step_count, parse_plan(r)), 1)}
  ELSE after_planning(s, step_count, q, 1)

\* Mutant of reason_node: the failure cap is tested with > in place of >=.
reason_node_late_cap(s) ==
  LET step_count == s.step_count + 1
      q == strip(s.question)
  IN IF is_math_expr(q)
     THEN {Out(s, fast_path(s, step_count, q), 0)}
     ELSE IF s.tool_fail_count > s.tool_fail_cap
     THEN {Out(s, fail_cap_guardrail(s, step_count), 0)}
     ELSE IF s.tool_fail_count > 0
     THEN {Out(s, failure_recovery(s, step_count), 0)}
     ELSE IF s.plan = <<>>
     THEN UNION {planning(s, step_count, q, r) : r \in PlanReplies}
     ELSE after_planning(s, step_count, q, 0)

reason_node(s) ==
  LET step_count == s.step_count + 1
      q == strip(s.question)
  IN IF is_math_expr(q)
     THEN {Out(s, fast_path(s, step_count, q), 0)}
     ELSE IF s.tool_fail_count >= s.tool_fail_cap
     THEN {Out(s, fail_cap_guardrail(s, step_count), 0)}
     ELSE IF s.tool_fail_count > 0
     THEN {Out(s, failure_recovery(s, step_count), 0)}
     ELSE IF s.plan = <<>>
     THEN UNION {planning(s, step_count, q, r) : r \in PlanReplies}
     ELSE after_planning(s, step_count, q, 0)

\* ------------------------------------------------------------------ the graph

\* The questions of the model: two pure math expressions (one padded with
\* blanks), and two that are not: a word of the corpus, and an operator with
\* no digit, which matches no document.
Questions ==
  {<<"2", " ", "+", " ", "2">>,
   <<" ", "2", "/", "0", " ">>,
   <<"a", "g", "e", "n", "t">>,
   <<"+">>}

\* The initial state of main.py:20-74 for a question.
InitialState(question) ==
  [question |-> question,
   next |-> "THINK",
   step_count |-> 0,
   max_steps |-> max_steps,
   reasoning_steps |-> <<>>,
   knowledge |-> <<>>,
   retrieve_count |-> 0,
   retrieve_cap |-> retrieve_cap,
   tool_request |-> None,
   repaired_tool_request |-> None,
   tool_results |-> <<>>,
   tool_fail_count |-> 0,
   tool_fail_cap |-> tool_fail_cap,
   tool_calls |-> 0,
   tool_call_cap |-> tool_call_cap,
   tool_latency_ms |-> 0,
   tool_latency_cap_ms |-> tool_latency_cap_ms,
   last_error |-> None,
   think_count |-> 0,
   memory_summary |-> "",
   memory_every |-> memory_every,
   last_memory_at |-> 0,
   max_tool_risk |-> "medium",
   plan |-> <<>>]

\* The conditional edges out of REASON (lg_graph.py:90-100): a value of
\* "next" that is no key of the mapping makes the graph raise.
reason_edge(next) ==
  CASE next \in {"THINK", "RETRIEVE", "TOOL", "ANSWER"} -> next
    [] next = "STOP" -> "END"
    [] OTHER -> "FAULT"

\* One node run: its result is merged and the edge out of it followed.
Run(node, o, target) ==
  /\ state' = o.state
  /\ pc' = IF o.fault THEN "FAULT" ELSE target
  /\ llm_calls' = o.calls
  /\ updated' = o.keys
  /\ prev' = node

Init ==
  /\ \E question \in Questions : state = InitialState(question)
  /\ pc = "REASON"
  /\ llm_calls = 0
  /\ updated = {}
  /\ prev = "START"

Reason ==
  /\ pc = "REASON"
  /\ state.step_count < MaxStepCount
  /\ \E o \in reason_node(state) : Run("REASON", o, reason_edge(o.state.next))

Think == pc = "THINK" /\ \E o \in think_node(state) : Run("THINK", o, "MEMORY")

Memory == pc = "MEMORY" /\ \E o \in memory_node(state) : Run("MEMORY", o, "REASON")

Retrieve == pc = "RETRIEVE" /\ \E o \in retrieve_node(state) : Run("RETRIEVE", o, "REASON")

Tool == pc = "TOOL" /\ \E o \in tool_node(state) : Run("TOOL", o, "REASON")

Answer == pc = "ANSWER" /\ \E o \in answer_node(state) : Run("ANSWER", o, "END")

Next == Reason \/ Think \/ Memory \/ Retrieve \/ Tool \/ Answer

Spec == Init /\ [][Next]_vars

\* ------------------------------------------------ the Memory Compactor on its own

\* memory_node reads reasoning_steps, last_memory_at and memory_every only;
\* the inputs are all combinations of these within the bounds.
MemoryStates ==
  {[InitialState(<<"+">>) EXCEPT
      !.reasoning_steps = [i \in 1..n |-> StepEntry(i, "REASON ->")],
      !.last_memory_at = w,
      !.memory_every = m]
   : n \in 0..MaxLogLen, w \in 0..MaxWatermark, m \in 1..MaxMemoryEvery}

InitMemory ==
  /\ state \in MemoryStates
  /\ pc = "MEMORY"
  /\ llm_calls = 0
  /\ updated = {}
  /\ prev = "START"

\* memory_node is applied to the state the last application left.
MemoryAgain == pc = "MEMORY" /\ \E o \in memory_node(state) : Run("MEMORY", o, "MEMORY")

NextMemory == MemoryAgain

SpecMemory == InitMemory /\ [][NextMemory]_vars

\* --------------------------------------------------------------------- claims

IsMathQuestion == is_math_expr(strip(state.question))

LastResult == state.tool_results[Len(state.tool_results)]

InRecovery(s) == s.tool_fail_count > 0 /\ s.tool_fail_count < s.tool_fail_cap

\* C1: the run reaches ANSWER or STOP within max_steps REASON invocations: the
\* REASON invocation that brings step_count to max_steps, and any later one,
\* does not send the run to THINK, RETRIEVE or TOOL.
C1_TerminatesWithinMaxSteps ==
  (prev = "REASON" /\ state.step_count >= state.max_steps)
    => pc \notin {"THINK", "RETRIEVE", "TOOL"}

\* C2: once tool_calls >= tool_call_cap or tool_latency_ms >= tool_latency_cap_ms,
\* no TOOL phase is executed.
C2_NoToolAfterBudget == pc = "TOOL" => ~tool_budget_exhausted(state)

\* C3: retrieve_count never exceeds retrieve_cap.
C3_RetrieveWithinCap == state.retrieve_count <= state.retrieve_cap

\* C4: the tool named by a tool_request that REASON issues has a declared risk
\* not ranked above max_tool_risk.
C4_RiskPolicy ==
  (prev = "REASON" /\ "tool_request" \in updated /\ state.tool_request # None
   /\ get_tool(state.tool_request[1].tool) # None)
    => risk_rank[get_tool(state.tool_request[1].tool)[1].risk]
         <= risk_rank[state.max_tool_risk]

\* C5: every REASON invocation that returns assigns next in its update, to one
\* of THINK, RETRIEVE, TOOL, ANSWER, STOP.
C5_ReasonAssignsNext ==
  (prev = "REASON" /\ updated # {})
    => "next" \in updated /\ state.next \in {"THINK", "RETRIEVE", "TOOL", "ANSWER", "STOP"}

\* C6: every REASON invocation that returns an update (a REASON update is
\* never empty) raises step_count by exactly 1, and no other phase changes
\* step_count.
C6_StepCountCountsReason ==
  [][/\ (pc = "REASON" /\ updated' # {}) => state'.step_count = state.step_count + 1
     /\ (pc # "REASON" \/ updated' = {}) => state'.step_count = state.step_count]_vars

\* C6 witness: three REASON invocations have run, and a TOOL phase after them.
C6_Witness == prev = "TOOL" /\ state.step_count = 3

\* C7: a REASON invocation calls the language model at most once.
C7_OneLlmCallPerReason == prev = "REASON" => llm_calls <= 1

\* C8: for a pure math question, REASON (a) with no tool result and tool budget
\* left requests the calculator on the stripped question, routes to TOOL,
\* creates no plan and calls no language model; (b) after a successful
\* calculator result routes to ANSWER; (c) after a failed one routes to STOP.
C8_FastPath ==
  [][(pc = "REASON" /\ IsMathQuestion) =>
       /\ (state.tool_results = <<>> /\ ~tool_budget_exhausted(state)) =>
            /\ pc' = "TOOL" /\ state'.next = "TOOL"
            /\ state'.tool_request = calculator_request(strip(state.question))
            /\ state'.plan = <<>>
            /\ llm_calls' = 0
       /\ (state.tool_results # <<>> /\ LastResult.tool = "calculator" /\ LastResult.ok) =>
            pc' = "ANSWER" /\ state'.next = "ANSWER"
       /\ (state.tool_results # <<>> /\ LastResult.tool = "calculator" /\ ~LastResult.ok) =>
            pc' = "END" /\ state'.next = "STOP"]_vars

\* C8 witness: a math question was sent to the calculator by the first REASON,
\* the calculator failed, and the second REASON stopped the run.
C8_Witness ==
  /\ IsMathQuestion /\ prev = "REASON" /\ pc = "END" /\ state.next = "STOP"
  /\ state.step_count = 2 /\ Len(state.tool_results) = 1
  /\ LastResult.tool = "calculator" /\ ~LastResult.ok
  /\ LastResult.input = Args("expression", strip(state.question))

\* C9: for a question that is not pure math, a REASON invocation that starts
\* with tool_fail_count >= tool_fail_cap routes to ANSWER when knowledge or
\* tool_results is nonempty and to STOP otherwise, without touching the plan
\* and without calling the language model.
C9_FailCapEscalation ==
  [][(pc = "REASON" /\ ~IsMathQuestion /\ state.tool_fail_count >= state.tool_fail_cap) =>
       /\ has_evidence(state) => pc' = "ANSWER" /\ state'.next = "ANSWER"
       /\ ~has_evidence(state) => pc' = "END" /\ state'.next = "STOP"
       /\ state'.plan = state.plan
       /\ state'.tool_request = state.tool_request
       /\ llm_calls' = 0]_vars

\* C9 witness: REASON has just escalated a run whose failures reached the cap.
C9_Witness ==
  /\ ~IsMathQuestion /\ prev = "REASON" /\ pc = "ANSWER"
  /\ state.tool_fail_count >= state.tool_fail_cap

\* C10: the repair cycle REASON -> THINK -> MEMORY -> REASON is cut off by the
\* step budget, the one capped counter that advances in it: REASON does not
\* send a run in failure recovery to THINK once step_count has passed max_steps.
C10_RepairCycleBounded ==
  (prev = "REASON" /\ pc = "THINK" /\ InRecovery(state))
    => state.step_count <= state.max_steps

\* The request a TOOL phase reads (req = state.get("tool_request") or {}).
Request == IF state.tool_request = None THEN [tool |-> "", args |-> NoArgs] ELSE state.tool_request[1]

\* The request cannot be carried out: no request or no tool name, a name that
\* is not registered, or a keyword the handler does not take (the call raises).
RequestMustFail ==
  \/ Request.tool = ""
  \/ get_tool(Request.tool) = None
  \/ Request.tool = "calculator" /\ Request.args.kw # "expression"
  \/ Request.tool = "web_lookup_stub" /\ Request.args.kw # "query"

\* C11: a TOOL phase that fails (no request, unknown tool, handler exception,
\* handler-reported ok=false, semantic validation failure: its record has
\* ok=false) sets tool_fail_count to its previous value + 1 and last_error to
\* a non-empty message; one that succeeds sets tool_fail_count to 0 and
\* last_error to None.  A calculator record is ok only with a finite number.
C11_ToolOutcomeAccounting ==
  [][pc = "TOOL" =>
       LET r == state'.tool_results[Len(state'.tool_results)]
       IN /\ Len(state'.tool_results) = Len(state.tool_results) + 1
          /\ RequestMustFail => ~r.ok
          /\ (Request.tool = "calculator" /\ r.ok) =>
               r.output = [kind |-> "result", value |-> "number"]
          /\ ~r.ok => /\ state'.tool_fail_count = state.tool_fail_count + 1
                      /\ Truthy(state'.last_error)
          /\ r.ok => /\ state'.tool_fail_count = 0
                     /\ state'.last_error = None]_vars

\* C11 witness: a TOOL phase has just succeeded after one that failed.
C11_Witness ==
  /\ prev = "TOOL" /\ Len(state.tool_results) = 2
  /\ ~state.tool_results[1].ok /\ state.tool_results[2].ok
  /\ state.tool_fail_count = 0 /\ state.last_error = None

\* C12: for an absent request, an unregistered tool name or a handler that
\* raises, the TOOL phase returns, appends exactly one record with ok=false
\* and an error output to tool_results, and control goes to REASON.
C12_ToolNeverFaults ==
  [][(pc = "TOOL" /\ RequestMustFail) =>
       /\ pc' = "REASON"
       /\ updated' # {}
       /\ LET r == state'.tool_results[Len(state'.tool_results)]
          IN /\ state'.tool_results = Append(state.tool_results, r)
             /\ ~r.ok /\ r.output.kind = "error" /\ r.output.value # ""]_vars

\* C12 witness: a TOOL phase has run a request for a name that is not registered.
C12_Witness ==
  /\ prev = "TOOL" /\ pc = "REASON" /\ state.tool_results # <<>>
  /\ LastResult.tool = "no_such_tool" /\ ~LastResult.ok
  /\ LastResult.output = [kind |-> "error", value |-> "Tool not found"]

\* C13: a successful TOOL phase raises tool_latency_ms by exactly the declared
\* latency_ms of the tool it ran; a failed one leaves tool_latency_ms unchanged.
C13_LatencyOnSuccessOnly ==
  [][pc = "TOOL" =>
       LET r == state'.tool_results[Len(state'.tool_results)]
       IN /\ r.ok => state'.tool_latency_ms =
                       state.tool_latency_ms + TOOL_REGISTRY[Request.tool].latency_ms
          /\ ~r.ok => state'.tool_latency_ms = state.tool_latency_ms]_vars

\* C13 witness: a TOOL phase has failed after the calculator had succeeded,
\* and only the calculator's latency is charged.
C13_Witness ==
  /\ prev = "TOOL" /\ Len(state.tool_results) = 2
  /\ state.tool_results[1].tool = "calculator" /\ state.tool_results[1].ok
  /\ ~state.tool_results[2].ok
  /\ state.tool_latency_ms = 5

\* C14: every TOOL phase raises tool_calls by exactly 1, whether it succeeds
\* or fails, and no other phase changes tool_calls.
C14_ToolCallsCountsAttempts ==
  [][/\ pc = "TOOL" => state'.tool_calls = state.tool_calls + 1
     /\ pc # "TOOL" => state'.tool_calls = state.tool_calls]_vars

\* C14 witness: one successful and one failed TOOL phase have been counted,
\* and a THINK phase has run since.
C14_Witness ==
  /\ prev = "THINK" /\ state.tool_calls = 2 /\ Len(state.tool_results) = 2
  /\ \E i, j \in 1..2 : state.tool_results[i].ok /\ ~state.tool_results[j].ok

\* C15: step_count, tool_calls, retrieve_count and tool_latency_ms never
\* decrease in any step of any phase.
C15_MonotonicCounters ==
  [][/\ state'.step_count >= state.step_count
     /\ state'.tool_calls >= state.tool_calls
     /\ state'.retrieve_count >= state.retrieve_count
     /\ state'.tool_latency_ms >= state.tool_latency_ms]_vars

\* C15 witness: all four counters have advanced and a failed TOOL phase has
\* just run with latency already charged.
C15_Witness ==
  /\ prev = "TOOL" /\ ~LastResult.ok
  /\ state.step_count >= 2 /\ state.tool_calls >= 2
  /\ state.retrieve_count >= 1 /\ state.tool_latency_ms >= 5

\* C16: THINK is followed by MEMORY and MEMORY by REASON; RETRIEVE and TOOL
\* are followed by REASON; nothing runs after ANSWER or STOP; ANSWER and STOP
\* are entered from REASON only.
C16_StateMachineShape ==
  /\ prev = "THINK" => pc = "MEMORY"
  /\ prev = "MEMORY" => pc = "REASON"
  /\ prev \in {"RETRIEVE", "TOOL"} => pc = "REASON"
  /\ prev = "ANSWER" => pc = "END"
  /\ pc = "ANSWER" => prev = "REASON"
  /\ (pc = "END" /\ state.next = "STOP") => prev = "REASON"

\* C17: after any TOOL phase tool_request is None, so every REASON invocation
\* starts with tool_request None and a request is run by one TOOL phase at most.
C17_RequestConsumedOnce ==
  /\ [](pc = "REASON" => state.tool_request = None)
  /\ [][pc = "TOOL" => state'.tool_request = None]_vars

\* C17 witness: a request was run by one TOOL phase, and the TOOL phase that
\* ran next found no request.
C17_Witness ==
  /\ prev = "TOOL" /\ Len(state.tool_results) = 2
  /\ state.tool_results[1].tool # "(none)"
  /\ state.tool_results[2].tool = "(none)"
  /\ state.tool_request = None

IsPrefix(a, b) == Len(a) <= Len(b) /\ SubSeq(b, 1, Len(a)) = a

IsSuffix(a, b) == Len(a) <= Len(b) /\ SubSeq(b, Len(b) - Len(a) + 1, Len(b)) = a

\* C18: every REASON, THINK, RETRIEVE, TOOL and ANSWER step leaves the old
\* reasoning_steps as a prefix of the new; MEMORY leaves a suffix of the old,
\* in order; tool_results is only ever appended to.
C18_LogAppendOnly ==
  [][/\ pc # "MEMORY" => IsPrefix(state.reasoning_steps, state'.reasoning_steps)
     /\ pc = "MEMORY" => IsSuffix(state'.reasoning_steps, state.reasoning_steps)
     /\ IsPrefix(state.tool_results, state'.tool_results)]_vars

\* C18 witness: MEMORY has just cut the log down to 4 entries.
C18_Witness ==
  /\ prev = "MEMORY" /\ "reasoning_steps" \in updated
  /\ Len(state.reasoning_steps) = 4 /\ state.last_memory_at > 4

\* C19: a MEMORY phase with len(reasoning_steps) - last_memory_at below
\* memory_every changes nothing in the state and calls no language model.
C19_MemoryTrigger ==
  [][(pc = "MEMORY"
      /\ Len(state.reasoning_steps) - state.last_memory_at < state.memory_every) =>
       /\ state' = state
       /\ updated' = {}
       /\ llm_calls' = 0]_vars

\* C19 witness: a MEMORY phase has run below the threshold, after an earlier
\* one had summarized.
C19_Witness ==
  /\ prev = "MEMORY" /\ pc = "REASON" /\ updated = {}
  /\ state.memory_summary = "summary"
  /\ Len(state.reasoning_steps) - state.last_memory_at < state.memory_every

\* C20: with memory_every >= 1, a second application of the Memory Compactor
\* right after a first one (no log entry added in between) changes nothing,
\* whether the first summarized or only advanced the watermark (SpecMemory).
C20_MemoryIdempotent ==
  [][(pc = "MEMORY" /\ prev = "MEMORY") =>
       /\ state' = state
       /\ updated' = {}
       /\ llm_calls' = 0]_vars

\* C20 witness: the second application has run after a first that summarized.
C20_Witness ==
  /\ prev = "MEMORY" /\ updated = {} /\ llm_calls = 0
  /\ state.memory_summary = "summary"
  /\ Len(state.reasoning_steps) = 4 /\ state.last_memory_at > 4

\* The text of the newest entry of reasoning_steps.
LastLog(s) == s.reasoning_steps[Len(s.reasoning_steps)]

\* C21: the ANSWER phase emits the value of the most recent tool result when
\* that is a successful calculator result, whatever knowledge holds; otherwise
\* the text of the newest knowledge snippet when there is one; otherwise the
\* fixed uncertainty message.
C21_AnswerPriority ==
  [][pc = "ANSWER" =>
       /\ state'.reasoning_steps # <<>>
       /\ LastLog(state').tag = "ANSWER:"
       /\ LastLog(state').text =
            IF state.tool_results # <<>> /\ LastResult.tool = "calculator" /\ LastResult.ok
            THEN LastResult.output.value
            ELSE IF state.knowledge # <<>>
            THEN state.knowledge[Len(state.knowledge)].text
            ELSE "I don't have enough evidence"]_vars

\* C21 witness: the answer is the calculator's number although knowledge is
\* nonempty.
C21_Witness ==
  /\ prev = "ANSWER" /\ state.knowledge # <<>> /\ state.tool_results # <<>>
  /\ LastResult.tool = "calculator" /\ LastResult.ok
  /\ LastLog(state) = Entry("ANSWER:", 0, "number")

\* REASON gets as far as the routing prompt of lg_nodes.py:846 from state s,
\* given that the planning reply (asked when the plan is empty) gives no plan.
ReachesRouting(s) ==
  /\ ~is_math_expr(strip(s.question))
  /\ s.tool_fail_count = 0 /\ s.tool_fail_cap > 0
  /\ s.plan = <<>>
  /\ s.step_count + 1 < s.max_steps
  /\ ~(s.retrieve_count >= s.retrieve_cap /\ s.knowledge = <<>>)
  /\ ~(~Truthy(s.last_error) /\ s.repaired_tool_request # None)
  /\ ~(s.tool_results # <<>> /\ s.tool_results[Len(s.tool_results)].ok)

\* C22: when REASON reaches the routing prompt and the reply is not JSON, it
\* routes to RETRIEVE if knowledge is empty and retrieve_count < retrieve_cap
\* and to STOP otherwise, raises nothing and issues no tool_request.  The
\* first conjunct is the node's result for that reply in every state that
\* reaches the prompt; the second is the step that logs "REASON fallback".
C22_RoutingParseFallback ==
  /\ [](ReachesRouting(state) =>
          LET o == llm_decision(state, state.step_count + 1,
                                ToolReply("invalid", "", "", NoArgs), 2)
          IN /\ ~o.fault
             /\ "tool_request" \notin o.keys
             /\ o.state.next = IF state.knowledge = <<>>
                                  /\ state.retrieve_count < state.retrieve_cap
                               THEN "RETRIEVE" ELSE "STOP")
  /\ [][(pc = "REASON" /\ updated' # {} /\ LastLog(state').text = "REASON fallback") =>
          /\ ReachesRouting(state)
          /\ state'.next = IF state.knowledge = <<>>
                              /\ state.retrieve_count < state.retrieve_cap
                           THEN "RETRIEVE" ELSE "STOP"
          /\ pc' = reason_edge(state'.next)
          /\ "tool_request" \notin updated'
          /\ state'.tool_request = state.tool_request]_vars

\* C22 witness: the fallback has stopped a run that holds knowledge.
C22_Witness ==
  /\ prev = "REASON" /\ pc = "END" /\ state.next = "STOP"
  /\ LastLog(state).text = "REASON fallback"
  /\ state.knowledge # <<>>

\* C23: whatever the reply to the routing prompt, the next that REASON emits
\* is one of THINK, RETRIEVE, TOOL, ANSWER, STOP.
C23_RoutingReplyValidated ==
  (prev = "REASON" /\ "next" \in updated /\ LastLog(state).text = "REASON ->")
    => state.next \in {"THINK", "RETRIEVE", "TOOL", "ANSWER", "STOP"}

\* C24: for a question that is not pure math, a REASON invocation that starts
\* with 0 < tool_fail_count < tool_fail_cap routes to TOOL with the repaired
\* request, and clears repaired_tool_request, when there is one, and routes to
\* THINK otherwise; either way the plan is untouched and no language model is
\* called.
C24_FailureRecoveryRouting ==
  [][(pc = "REASON" /\ ~IsMathQuestion /\ InRecovery(state)) =>
       /\ state.repaired_tool_request # None =>
            /\ pc' = "TOOL" /\ state'.next = "TOOL"
            /\ state'.tool_request = state.repaired_tool_request
            /\ state'.repaired_tool_request = None
       /\ state.repaired_tool_request = None =>
            /\ pc' = "THINK" /\ state'.next = "THINK"
            /\ state'.tool_request = state.tool_request
       /\ state'.plan = state.plan
       /\ "plan" \notin updated'
       /\ llm_calls' = 0]_vars

\* C24 witness: REASON has just sent the repaired request to TOOL, with steps
\* of a plan still pending.
C24_Witness ==
  /\ prev = "REASON" /\ pc = "TOOL" /\ ~IsMathQuestion
  /\ LastLog(state).text = "REASON -> TOOL (repaired)"
  /\ state.tool_request # None /\ state.repaired_tool_request = None
  /\ state.tool_fail_count > 0 /\ state.plan # <<>>

\* C25: in every reachable state plan has at most 3 elements, each one of
\* THINK, RETRIEVE, TOOL, ANSWER.
C25_PlanWellFormed ==
  /\ Len(state.plan) <= 3
  /\ \A i \in 1..Len(state.plan) : state.plan[i] \in {"THINK", "RETRIEVE", "TOOL", "ANSWER"}

\* C25 witness: REASON has just stored a plan of 3 steps.
C25_Witness ==
  /\ prev = "REASON" /\ "plan" \in updated /\ Len(state.plan) = 3
  /\ LastLog(state).text = "PLAN created"

\* C26: in one step plan stays as it is, or goes from empty to a nonempty
\* plan, or loses exactly its head, or becomes empty; THINK, MEMORY, RETRIEVE,
\* TOOL and ANSWER never change it.
C26_PlanMutationDiscipline ==
  [][/\ pc # "REASON" => state'.plan = state.plan
     /\ \/ state'.plan = state.plan
        \/ state.plan = <<>> /\ state'.plan # <<>>
        \/ state.plan # <<>> /\ state'.plan = Tail(state.plan)
        \/ state'.plan = <<>>]_vars

\* C26 witness: REASON has just popped the head of a plan of 3 steps.
C26_Witness ==
  /\ prev = "REASON" /\ "plan" \in updated /\ Len(state.plan) = 2
  /\ LastLog(state).text \in {"PLAN step", "PLAN step -> TOOL", "PLAN step TOOL failed -> THINK"}

\* REASON evaluates the plan of state s: the question is not pure math, no
\* tool failure is outstanding, and the plan is nonempty.
EvaluatesPlan(s) ==
  /\ ~is_math_expr(strip(s.question))
  /\ s.tool_fail_count = 0 /\ s.tool_fail_cap > 0
  /\ s.plan # <<>>

\* C27: when REASON evaluates a plan whose head is TOOL with tool_calls >=
\* tool_call_cap or tool_latency_ms >= tool_latency_cap_ms, it empties the
\* plan, issues no tool_request, appends an entry that says so, and routes to
\* ANSWER if knowledge or tool_results is nonempty and to STOP otherwise.
C27_BudgetInvalidation ==
  [][(pc = "REASON" /\ EvaluatesPlan(state) /\ state.plan[1] = "TOOL"
      /\ tool_budget_exhausted(state)) =>
       /\ state'.plan = <<>>
       /\ "tool_request" \notin updated' /\ state'.tool_request = state.tool_request
       /\ Len(state'.reasoning_steps) > Len(state.reasoning_steps)
       /\ state'.reasoning_steps[Len(state.reasoning_steps) + 1] =
            StepEntry(state.step_count + 1, "tool budget exhausted")
       /\ has_evidence(state) => pc' = "ANSWER" /\ state'.next = "ANSWER"
       /\ ~has_evidence(state) => pc' = "END" /\ state'.next = "STOP"
       /\ llm_calls' = 0]_vars

\* C27 witness: REASON has just dropped a plan for the tool budget and sent
\* the run to ANSWER.
C27_Witness ==
  /\ prev = "REASON" /\ pc = "ANSWER" /\ "plan" \in updated /\ state.plan = <<>>
  /\ LastLog(state).text = "tool budget exhausted"
  /\ tool_budget_exhausted(state)

\* C28: after REASON has dropped a plan whose head is RETRIEVE because
\* retrieve_count >= retrieve_cap, no RETRIEVE phase runs before the next
\* REASON invocation.
C28_NoRetrieveAfterInvalidation ==
  (prev = "REASON" /\ "plan" \in updated
   /\ LastLog(state).text = "PLAN invalidated: retrieve_cap reached")
    => pc # "RETRIEVE"

\* C29: when REASON executes the head of a plan for a question that is not
\* pure math, it pops the head; for a TOOL head it asks for a tool once and
\* either routes to THINK with no tool_request (no usable choice) or routes to
\* TOOL with the chosen tool and arguments as tool_request; for any other
\* head it routes to the head.  The first conjunct says which results the
\* node has for the replies: THINK is among them, and so is every choice
\* that names a tool.
C29_PlanExecution ==
  /\ [](( /\ pc = "REASON" /\ EvaluatesPlan(state) /\ state.plan[1] = "TOOL"
          /\ ~tool_budget_exhausted(state)) =>
          /\ \E o \in reason_node(state) : ~o.fault /\ o.state.next = "THINK"
          /\ \A c \in LLMCalls : c.tool # "" =>
               \E o \in reason_node(state) :
                 ~o.fault /\ o.state.next = "TOOL" /\ o.state.tool_request = Some(c))
  /\ [][( /\ pc = "REASON" /\ EvaluatesPlan(state)
          /\ ~(state.plan[1] = "RETRIEVE" /\ state.retrieve_count >= state.retrieve_cap)
          /\ ~(state.plan[1] = "TOOL" /\ tool_budget_exhausted(state))) =>
          /\ state'.plan = Tail(state.plan)
          /\ IF state.plan[1] = "TOOL"
             THEN /\ llm_calls' = 1
                  /\ \/ /\ pc' = "THINK" /\ state'.next = "THINK"
                        /\ "tool_request" \notin updated'
                        /\ state'.tool_request = state.tool_request
                     \/ /\ pc' = "TOOL" /\ state'.next = "TOOL"
                        /\ \E c \in LLMCalls : c.tool # "" /\ state'.tool_request = Some(c)
             ELSE /\ llm_calls' = 0
                  /\ pc' = state.plan[1] /\ state'.next = state.plan[1]
                  /\ state'.tool_request = state.tool_request]_vars

\* C29 witness: REASON has just popped a TOOL head and fallen back to THINK.
C29_Witness ==
  /\ prev = "REASON" /\ pc = "THINK" /\ llm_calls = 1
  /\ LastLog(state).text = "PLAN step TOOL failed -> THINK"
  /\ state.tool_request = None /\ state.plan # <<>>

\* C30: a MEMORY phase at or above the threshold replaces a log of more than
\* 4 entries by its last 4, in order, and stores a new memory_summary; with 4
\* entries or fewer it changes last_memory_at only, to the length of the log,
\* and calls no language model.
C30_CompactionResult ==
  [][(pc = "MEMORY"
      /\ Len(state.reasoning_steps) - state.last_memory_at >= state.memory_every) =>
       IF Len(state.reasoning_steps) > 4
       THEN /\ state'.reasoning_steps =
                 SubSeq(state.reasoning_steps, Len(state.reasoning_steps) - 3,
                        Len(state.reasoning_steps))
            /\ "memory_summary" \in updated' /\ state'.memory_summary = "summary"
            /\ llm_calls' = 1
       ELSE /\ state' = [state EXCEPT !.last_memory_at = Len(state.reasoning_steps)]
            /\ llm_calls' = 0]_vars

\* C30 witness: a MEMORY phase above the threshold has just advanced the
\* watermark of a log of at most 4 entries, and nothing else.
C30_Witness ==
  /\ prev = "MEMORY" /\ updated = {"last_memory_at"} /\ llm_calls = 0
  /\ state.last_memory_at = Len(state.reasoning_steps)
  /\ Len(state.reasoning_steps) <= 4 /\ state.memory_summary = ""

\* C31: the ANSWER phase appends exactly one entry that begins with the
\* marker "ANSWER: " to reasoning_steps, sets next to ANSWER, and changes no
\* other field.
C31_AnswerFrame ==
  [][pc = "ANSWER" =>
       /\ Len(state'.reasoning_steps) = Len(state.reasoning_steps) + 1
       /\ LastLog(state').tag = "ANSWER:"
       /\ state' = [state EXCEPT !.reasoning_steps = Append(@, LastLog(state')),
                                 !.next = "ANSWER"]
       /\ updated' = {"reasoning_steps", "next"}]_vars

\* C31 witness: ANSWER has run with no evidence and has left the pending
\* step of the plan in place.
C31_Witness ==
  /\ prev = "ANSWER" /\ pc = "END" /\ state.next = "ANSWER"
  /\ LastLog(state) = Entry("ANSWER:", 0, "I don't have enough evidence")
  /\ state.plan # <<>>

\* C32: no RETRIEVE phase is entered from a state with retrieve_count >=
\* retrieve_cap and empty knowledge (the guardrail of REASON stops such a run).
C32_NoRetrieveWhenExhausted ==
  pc = "RETRIEVE" => ~(state.retrieve_count >= state.retrieve_cap /\ state.knowledge = <<>>)

\* C33: last_error is set if and only if tool_fail_count > 0, and it is then
\* a non-empty text, so THINK is in repair mode exactly when a tool failure
\* is outstanding.
C33_ErrorIffFailing ==
  /\ state.last_error # None <=> state.tool_fail_count > 0
  /\ Truthy(state.last_error) <=> state.tool_fail_count > 0
  /\ (prev = "THINK" /\ updated # {}) =>
       (LastLog(state).tag = "THINK (repair)" <=> state.tool_fail_count > 0)

\* C33 witness: THINK has just run in repair mode.
C33_Witness ==
  /\ prev = "THINK" /\ pc = "MEMORY" /\ LastLog(state).tag = "THINK (repair)"
  /\ state.tool_fail_count > 0 /\ state.last_error # None

\* C34: whenever REASON starts with a repaired request, tool_fail_count > 0
\* and the request comes from the THINK phase just before; that invocation
\* consumes it (or ends the run), and no REASON invocation takes the cleanup
\* return, the one update without step_count and next.
C34_RepairConsumedAtOnce ==
  /\ []((pc = "REASON" /\ state.repaired_tool_request # None) =>
          state.tool_fail_count > 0 /\ prev = "MEMORY")
  /\ [][pc = "REASON" =>
          /\ state.repaired_tool_request # None =>
               \/ /\ state'.repaired_tool_request = None
                  /\ state'.tool_request = state.repaired_tool_request
                  /\ pc' = "TOOL"
               \/ pc' \in {"ANSWER", "END"}
          /\ updated' # {} => updated' # {"repaired_tool_request"}]_vars

\* C34 witness: a repaired request waits for the REASON invocation about to run.
C34_Witness ==
  /\ pc = "REASON" /\ prev = "MEMORY"
  /\ state.repaired_tool_request # None /\ state.tool_fail_count > 0

\* The number of records with ok = FALSE at the end of results.
RECURSIVE TrailingFailures(_)
TrailingFailures(results) ==
  IF results = <<>> \/ results[Len(results)].ok THEN 0
  ELSE 1 + TrailingFailures(SubSeq(results, 1, Len(results) - 1))

\* C35: tool_fail_count is the number of consecutive failed records at the
\* end of tool_results, and tool_calls is the length of tool_results.
C35_CountersMatchResults ==
  /\ state.tool_fail_count = TrailingFailures(state.tool_results)
  /\ state.tool_calls = Len(state.tool_results)

\* C35 witness: a success followed by two failures.
C35_Witness ==
  /\ Len(state.tool_results) = 3 /\ state.tool_results[1].ok
  /\ ~state.tool_results[2].ok /\ ~state.tool_results[3].ok
  /\ state.tool_fail_count = 2 /\ state.tool_calls = 3

\* C36: every TOOL phase is entered with a tool_request naming a tool that the
\* REASON invocation just before it set, so the Tool Executor never has to
\* record "No tool requested".
C36_ToolRequestedByReason ==
  pc = "TOOL" =>
    /\ prev = "REASON" /\ "tool_request" \in updated
    /\ state.tool_request # None /\ state.tool_request[1].tool # ""

\* C37: the memory watermark never exceeds the length of the log:
\* last_memory_at <= Len(reasoning_steps), also right after a compaction.
C37_WatermarkWithinLog == state.last_memory_at <= Len(state.reasoning_steps)

\* C38: a run on a pure math question is REASON -> TOOL(calculator) -> REASON
\* -> ANSWER or STOP: one TOOL phase, at most 2 REASON invocations, no THINK,
\* RETRIEVE or MEMORY phase, no plan and no language model call, whether the
\* calculator succeeds or fails.
C38_MathRunShape ==
  IsMathQuestion =>
    /\ pc \notin {"THINK", "RETRIEVE", "MEMORY", "FAULT"}
    /\ prev \notin {"THINK", "RETRIEVE", "MEMORY"}
    /\ state.plan = <<>> /\ llm_calls = 0
    /\ state.step_count <= 2 /\ state.tool_calls <= 1
    /\ Len(state.tool_results) = state.tool_calls
    /\ (state.tool_results # <<>> => LastResult.tool = "calculator")
    /\ prev = "START" => pc = "REASON" /\ state.step_count = 0 /\ state.tool_calls = 0
    /\ (prev = "REASON" /\ state.step_count = 1) =>
          /\ pc = "TOOL" /\ state.tool_calls = 0
          /\ state.tool_request = calculator_request(strip(state.question))
    /\ prev = "TOOL" => pc = "REASON" /\ state.step_count = 1 /\ state.tool_calls = 1
    /\ (prev = "REASON" /\ state.step_count = 2) =>
          /\ state.tool_calls = 1
          /\ pc = (IF LastResult.ok THEN "ANSWER" ELSE "END")
    /\ prev = "ANSWER" => pc = "END" /\ state.step_count = 2 /\ state.tool_calls = 1
    /\ pc = "END" => state.step_count = 2 /\ state.tool_calls = 1

\* C38 witness: a math run has ended in ANSWER after its single calculator
\* call and its second REASON.
C38_Witness ==
  /\ IsMathQuestion /\ prev = "ANSWER" /\ pc = "END"
  /\ state.step_count = 2 /\ state.tool_calls = 1
  /\ LastResult.tool = "calculator" /\ LastResult.ok
  /\ LastLog(state).tag = "ANSWER:"

\* C39: tool_fail_count never exceeds tool_fail_cap, and no TOOL phase starts
\* in a state where the count has reached the cap.
C39_FailCountWithinCap ==
  /\ state.tool_fail_count <= state.tool_fail_cap
  /\ pc = "TOOL" => state.tool_fail_count < state.tool_fail_cap

\* C39 witness: a TOOL phase has just brought the count up to the cap.
C39_Witness ==
  /\ prev = "TOOL" /\ pc = "REASON"
  /\ state.tool_fail_count = state.tool_fail_cap
  /\ ~LastResult.ok

\* C40: for a question that is not pure math, a REASON invocation that sees
\* tool_fail_count >= tool_fail_cap has a nonempty tool_results and routes to
\* ANSWER; "STOP: tool_fail_cap reached" is never logged; and the ANSWER that
\* follows gives the latest knowledge text when there is knowledge and the
\* fixed uncertainty message when there is none.
C40_FailCapAlwaysAnswers ==
  /\ [](\A i \in 1..Len(state.reasoning_steps) :
          state.reasoning_steps[i].text # "STOP: tool_fail_cap reached")
  /\ [][(pc = "REASON" /\ ~IsMathQuestion
          /\ state.tool_fail_count >= state.tool_fail_cap) =>
           state.tool_results # <<>> /\ pc' = "ANSWER"]_vars
  /\ [][(pc = "ANSWER" /\ ~IsMathQuestion
          /\ state.tool_fail_count >= state.tool_fail_cap) =>
           LastLog(state') =
             Entry("ANSWER:", 0,
                   IF state.knowledge # <<>>
                   THEN state.knowledge[Len(state.knowledge)].text
                   ELSE "I don't have enough evidence")]_vars

\* C40 witness: with documents retrieved, two tool failures in a row brought
\* the run to ANSWER, which gave the text of the latest document.
C40_Witness ==
  /\ ~IsMathQuestion /\ prev = "ANSWER" /\ pc = "END"
  /\ state.tool_fail_count >= state.tool_fail_cap
  /\ state.knowledge # <<>>
  /\ LastLog(state) = Entry("ANSWER:", 0, state.knowledge[Len(state.knowledge)].text)

=============================================================================
